---- MODULE Spec2Model ----
(***************************************************************************)
(* Model of the SwiftAPI attestation mediator for browser-use:             *)
(*   swiftapi_integration/attestation.py  (SwiftAPIClient, providers)      *)
(*   swiftapi_integration/tools.py        (SwiftAPITools.act)              *)
(* Python dicts are functions from keys to values, d.get(k, default) is    *)
(* Get(d, k, default); formatted strings are sequences of their pieces.    *)
(***************************************************************************)
EXTENDS Integers, Sequences, FiniteSets, TLC

VARIABLES
    config,               \* SwiftAPITools._swiftapi_config (api_key, fail_open)
    attestation_provider, \* SwiftAPITools._attestation_provider (its class)
    attest_all_actions,   \* SwiftAPITools._attest_all_actions
    attestation_cache,    \* SwiftAPITools._attestation_cache
    client,               \* SwiftAPIClient._client (the transport session)
    action_log,           \* NullAttestationProvider._action_log
    pc,                   \* per task: position of its act() call
    action,               \* per task: the action name of the ActionModel
    response,             \* per task: what the transport gave back to /verify
    verdict,              \* per task: what provider.verify_action returned/raised
    result,               \* per task: how act() ended
    stats,                \* per task: calls this act() made
    revocation,           \* per task: its check_revocation call and the answer
    calls_started,        \* number of act() and client calls begun
    requests_sent,        \* number of POST /verify requests sent
    log_actions,          \* NullAttestationProvider.log_actions
    null_calls,           \* action types NullAttestationProvider.verify_action got
    executor_args,        \* per task: what super().act() was called with
    sessions_created,     \* number of httpx.AsyncClient objects created so far
    open_sessions,        \* the AsyncClient objects created and not yet closed
    fp_action,            \* the action type being fingerprinted
    fp_params,            \* its params dict, items in insertion order
    fp_log,               \* the fingerprints computed so far, by call site
    provider_arg,         \* the attestation_provider argument of SwiftAPITools
    clock,                \* what datetime.now() reads, in microseconds
    request_ids,          \* context.request_id of the client's verify calls, in call order
    sent_contexts,        \* the context given to and the context sent by each verify call
    agent,                \* the arguments a SwiftAPIAgent was built with, and its tools
    run                   \* SwiftAPIAgent.run(): where it is and how super().run() ended

vars == <<config, attestation_provider, attest_all_actions, attestation_cache,
          client, action_log, pc, action, response, verdict, result, stats,
          revocation, calls_started, requests_sent, log_actions, null_calls,
          executor_args, sessions_created, open_sessions,
          fp_action, fp_params, fp_log, provider_arg, clock, request_ids,
          sent_contexts, agent, run>>

fingerprints == <<fp_action, fp_params, fp_log>>
requests == <<clock, request_ids, sent_contexts>>

\* what construction fixes
settings == <<config, attestation_provider, attest_all_actions, attestation_cache,
              log_actions, provider_arg>>

(***************************************************************************)
(* Bounds                                                                  *)
(***************************************************************************)
MaxCalls == 2

Tasks == {"t1", "t2"}

(***************************************************************************)
(* Python values                                                           *)
(***************************************************************************)
None == <<>>
Some(v) == <<v>>
NoneStr == "None"
EmptyDict == [k \in {} |-> ""]
Get(d, k, default) == IF k \in DOMAIN d THEN d[k] ELSE default
Contains(msg, piece) == \E i \in 1..Len(msg) : msg[i] = piece

(***************************************************************************)
(* tools.py: the classifier                                                *)
(***************************************************************************)
HIGH_RISK_ACTIONS ==
    {"click", "input", "input_text", "fill", "navigate", "go_to_url", "search",
     "submit", "upload", "download", "evaluate", "execute_script", "press",
     "keyboard", "drag", "drop", "select", "hover"}

read_only_with_click ==
    {"screenshot", "get_text", "get_html", "get_url", "get_title", "extract",
     "find_text", "wait", "sleep", "scroll", "click"}

READ_ONLY_ACTIONS ==
    {"screenshot", "get_text", "get_html", "get_url", "get_title", "extract",
     "find_text", "wait", "sleep", "scroll"}

\* Action names that are in neither set, and names written in another case.
UnknownActions == {"custom_tool", "done"}
MixedCase == [n \in {"Click", "SCREENSHOT"} |->
                 IF n = "Click" THEN "click" ELSE "screenshot"]
ActionNames ==
    HIGH_RISK_ACTIONS \cup READ_ONLY_ACTIONS \cup UnknownActions \cup DOMAIN MixedCase

\* str.lower() on the names above
lower(name) == IF name \in DOMAIN MixedCase THEN MixedCase[name] ELSE name

requires_attestation_always(attest_all, action_name) == TRUE
requires_attestation_ignores_override(attest_all, action_name) ==
    lower(action_name) \in HIGH_RISK_ACTIONS

requires_attestation(attest_all, action_name) ==
    IF attest_all THEN TRUE ELSE lower(action_name) \in HIGH_RISK_ACTIONS

(***************************************************************************)
(* attestation.py: exceptions and AttestationResult                        *)
(***************************************************************************)
Exception(cls, msg, denial_reason, policy_id) ==
    [cls |-> cls, msg |-> msg, denial_reason |-> denial_reason, policy_id |-> policy_id]
AttestationError(msg) == Exception("AttestationError", msg, "", "")
PolicyViolationError(msg, denial_reason, policy_id) ==
    Exception("PolicyViolationError", msg, denial_reason, policy_id)
\* raised by response.json() on a body that is not JSON; not an AttestationError
JSONDecodeError == Exception("JSONDecodeError", <<"Expecting value">>, "", "")

\* asyncio.CancelledError, raised at the await of a cancelled task
CancelledError == Exception("CancelledError", <<>>, "", "")
\* httpx: "Cannot send a request, as the client has been closed."
RuntimeError == Exception("RuntimeError", <<"client has been closed">>, "", "")

\* isinstance(e, AttestationError): PolicyViolationError is a subclass
IsAttestationError(e) == e.cls \in {"AttestationError", "PolicyViolationError"}

Return(v) == [kind |-> "returned", value |-> v]
Raise(e) == [kind |-> "raised", exc |-> e]
NotCalled == [kind |-> "not_called"]

AttestationResult(approved, verification_id, jti, decision_hash, action_fingerprint, reason, attestation, policy_bundle_hash, expires_at) ==
    [approved |-> approved, verification_id |-> verification_id, jti |-> jti,
     decision_hash |-> decision_hash, action_fingerprint |-> action_fingerprint,
     reason |-> reason, attestation |-> attestation,
     policy_bundle_hash |-> policy_bundle_hash, expires_at |-> expires_at]

\* AttestationResult(approved=..., reason=...) with the dataclass defaults
DefaultResult(approved, reason) ==
    AttestationResult(approved, "", "", "", "", reason, None, NoneStr, NoneStr)

(***************************************************************************)
(* What the transport can give back to a request (httpx)                   *)
(***************************************************************************)
HttpResponse(status, is_json, body) ==
    [kind |-> "response", status |-> status, is_json |-> is_json, body |-> body,
     error |-> ""]
\* httpx.RequestError: ConnectError, and ReadTimeout when config.timeout expires
RequestError(name) ==
    [kind |-> "request_error", status |-> 0, is_json |-> FALSE, body |-> EmptyDict,
     error |-> name]
Text(t) == [text |-> t]
\* the task was cancelled while it awaited the answer
Cancelled ==
    [kind |-> "cancelled", status |-> 0, is_json |-> FALSE, body |-> EmptyDict, error |-> ""]
\* the request was made on an AsyncClient that is already closed
ClientClosed ==
    [kind |-> "client_closed", status |-> 0, is_json |-> FALSE, body |-> EmptyDict,
     error |-> ""]
\* no answer yet
NoResponse ==
    [kind |-> "none", status |-> 0, is_json |-> FALSE, body |-> EmptyDict, error |-> ""]

ExecutionAttestation == [jti |-> "abc", expires_at |-> "2099-01-01T00:00:00Z"]
\* an attestation whose expires_at is before the time the answer arrives
ExpiredAttestation == [jti |-> "old", expires_at |-> "2000-01-01T00:00:00Z"]
PastStamps == {"2000-01-01T00:00:00Z"}

VerifySuccessBodies ==
    { [approved |-> TRUE, verification_id |-> "v-1",
       execution_attestation |-> ExecutionAttestation, decision_hash |-> "dh-1",
       action_fingerprint |-> "fp-1", policy_bundle_hash |-> "pb-1", reason |-> "ok"],
      [approved |-> TRUE],
      [approved |-> TRUE, verification_id |-> "v-0",
       execution_attestation |-> ExpiredAttestation],
      [approved |-> FALSE, reason |-> "budget exceeded", policy_id |-> "P-12"],
      [approved |-> FALSE],
      [reason |-> "no decision"] }

DenialBodies ==
    { [reason |-> "budget exceeded", policy_id |-> "P-12"],
      [detail |-> "forbidden"] }

VerifyResponses ==
    { HttpResponse(200, TRUE, b) : b \in VerifySuccessBodies }
    \cup { HttpResponse(200, FALSE, Text("<html>gateway</html>")) }
    \cup { HttpResponse(403, TRUE, b) : b \in DenialBodies }
    \cup { HttpResponse(403, FALSE, Text("Forbidden")) }
    \cup { HttpResponse(401, TRUE, EmptyDict), HttpResponse(500, FALSE, Text("oops")) }
    \cup { RequestError("ConnectError"), RequestError("ReadTimeout") }

\* response.raise_for_status() raises httpx.HTTPStatusError
IsErrorStatus(status) == status < 200 \/ status >= 300

(***************************************************************************)
(* attestation.py: SwiftAPIClient.verify, from the answer to its POST      *)
(***************************************************************************)
\* a handler as wide as `except BaseException`
verify_catches_exception(resp) ==
    IF resp.kind \in {"cancelled", "client_closed", "request_error"}
    THEN Raise(AttestationError(<<"SwiftAPI unreachable:", resp.error>>))
    ELSE IF IsErrorStatus(resp.status)
    THEN IF resp.status = 401
         THEN Raise(AttestationError(<<"Invalid SwiftAPI key">>))
         ELSE IF resp.status = 403
         THEN IF resp.is_json
              THEN Raise(PolicyViolationError(
                       <<"Action denied:", Get(resp.body, "reason", "Unknown")>>,
                       Get(resp.body, "reason", ""),
                       Get(resp.body, "policy_id", "")))
              ELSE Raise(PolicyViolationError(
                       <<"Action denied:", resp.body.text>>, "", ""))
         ELSE Raise(AttestationError(<<"SwiftAPI error:", ToString(resp.status)>>))
    ELSE IF resp.is_json
    THEN Return(resp.body)
    ELSE Raise(JSONDecodeError)

\* a handler that catches httpx.ConnectError instead of httpx.RequestError
verify_timeout_escapes(resp) ==
    IF resp.kind = "request_error" /\ resp.error = "ReadTimeout"
    THEN Raise(Exception("ReadTimeout", <<>>, "", ""))
    ELSE verify_catches_exception(resp)

verify(resp) ==
    IF resp.kind = "cancelled" THEN Raise(CancelledError)
    ELSE IF resp.kind = "client_closed" THEN Raise(RuntimeError)
    ELSE IF resp.kind = "request_error"
    THEN Raise(AttestationError(<<"SwiftAPI unreachable:", resp.error>>))
    ELSE IF IsErrorStatus(resp.status)
    THEN IF resp.status = 401
         THEN Raise(AttestationError(<<"Invalid SwiftAPI key">>))
         ELSE IF resp.status = 403
         THEN IF resp.is_json
              THEN Raise(PolicyViolationError(
                       <<"Action denied:", Get(resp.body, "reason", "Unknown")>>,
                       Get(resp.body, "reason", ""),
                       Get(resp.body, "policy_id", "")))
              ELSE Raise(PolicyViolationError(
                       <<"Action denied:", resp.body.text>>, "", ""))
         ELSE Raise(AttestationError(<<"SwiftAPI error:", ToString(resp.status)>>))
    ELSE IF resp.is_json
    THEN Return(resp.body)
    ELSE Raise(JSONDecodeError)

(***************************************************************************)
(* attestation.py: SwiftAPIAttestationProvider.verify_action               *)
(***************************************************************************)
fail_open_result_with_jti ==
    AttestationResult(TRUE, "", "fail-open", "", "", "SwiftAPI unreachable, fail_open mode", None, NoneStr, NoneStr)

FailOpenResult == DefaultResult(TRUE, "SwiftAPI unreachable, fail_open mode")

\* jti read from the top level of the response
verify_action_try_top_level_jti(action_type, resp) ==
    LET r == verify(resp) IN
    IF r.kind = "raised" THEN r
    ELSE LET body == r.value
             approved == Get(body, "approved", FALSE)
             reason == Get(body, "reason", "Policy denied action")
         IN  IF ~approved
             THEN Raise(PolicyViolationError(
                      <<"Action", action_type, "denied:", reason>>, reason, ""))
             ELSE Return(AttestationResult(
                      TRUE,
                      Get(body, "verification_id", ""),
                      Get(body, "jti", ""),
                      Get(body, "decision_hash", ""),
                      Get(body, "action_fingerprint", ""),
                      Get(body, "reason", ""),
                      IF "execution_attestation" \in DOMAIN body
                          THEN Some(body["execution_attestation"]) ELSE None,
                      Get(body, "policy_bundle_hash", NoneStr),
                      Get(Get(body, "execution_attestation", EmptyDict),
                          "expires_at", NoneStr)))

\* response.get("approved", True)
verify_action_try_approved_by_default(action_type, resp) ==
    LET r == verify(resp) IN
    IF r.kind = "raised" THEN r
    ELSE LET body == r.value
             approved == Get(body, "approved", TRUE)
             reason == Get(body, "reason", "Policy denied action")
         IN  IF ~approved
             THEN Raise(PolicyViolationError(
                      <<"Action", action_type, "denied:", reason>>, reason, ""))
             ELSE Return(AttestationResult(
                      TRUE,
                      Get(body, "verification_id", ""),
                      Get(Get(body, "execution_attestation", EmptyDict), "jti", ""),
                      Get(body, "decision_hash", ""),
                      Get(body, "action_fingerprint", ""),
                      Get(body, "reason", ""),
                      IF "execution_attestation" \in DOMAIN body
                          THEN Some(body["execution_attestation"]) ELSE None,
                      Get(body, "policy_bundle_hash", NoneStr),
                      Get(Get(body, "execution_attestation", EmptyDict),
                          "expires_at", NoneStr)))

\* the body of the try block, lines 226-252
verify_action_try(action_type, resp) ==
    LET r == verify(resp) IN
    IF r.kind = "raised" THEN r
    ELSE LET body == r.value
             approved == Get(body, "approved", FALSE)
             reason == Get(body, "reason", "Policy denied action")
         IN  IF ~approved
             THEN Raise(PolicyViolationError(
                      <<"Action", action_type, "denied:", reason>>, reason, ""))
             ELSE Return(AttestationResult(
                      TRUE,
                      Get(body, "verification_id", ""),
                      Get(Get(body, "execution_attestation", EmptyDict), "jti", ""),
                      Get(body, "decision_hash", ""),
                      Get(body, "action_fingerprint", ""),
                      Get(body, "reason", ""),
                      IF "execution_attestation" \in DOMAIN body
                          THEN Some(body["execution_attestation"]) ELSE None,
                      Get(body, "policy_bundle_hash", NoneStr),
                      Get(Get(body, "execution_attestation", EmptyDict),
                          "expires_at", NoneStr)))

verify_action_fail_closed(fail_open, action_type, resp) ==
    verify_action_try(action_type, resp)
verify_action_always_open(fail_open, action_type, resp) ==
    LET r == verify_action_try(action_type, resp) IN
    IF r.kind = "raised" /\ r.exc.cls = "PolicyViolationError" THEN r
    ELSE IF r.kind = "raised" /\ IsAttestationError(r.exc)
    THEN Return(FailOpenResult)
    ELSE r
verify_action_catches_all(fail_open, action_type, resp) ==
    LET r == verify_action_try(action_type, resp) IN
    IF r.kind = "raised" /\ IsAttestationError(r.exc)
    THEN IF fail_open THEN Return(FailOpenResult) ELSE r
    ELSE r

verify_action(fail_open, action_type, resp) ==
    LET r == verify_action_try(action_type, resp) IN
    IF r.kind = "raised" /\ r.exc.cls = "PolicyViolationError" THEN r
    ELSE IF r.kind = "raised" /\ IsAttestationError(r.exc)
    THEN IF fail_open THEN Return(FailOpenResult) ELSE r
    ELSE r

(***************************************************************************)
(* attestation.py: NullAttestationProvider                                 *)
(***************************************************************************)
NullResult == DefaultResult(TRUE, "NullProvider: No attestation (development mode)")

null_log_entry(action_type) == [action_type |-> action_type]

null_log_newest_first(log_flag, log, action_type) ==
    IF log_flag THEN <<null_log_entry(action_type)>> \o log ELSE log

\* NullAttestationProvider.verify_action: what it does to _action_log
null_log(log_flag, log, action_type) ==
    IF log_flag THEN Append(log, null_log_entry(action_type)) ELSE log

(***************************************************************************)
(* attestation.py: SwiftAPIClient.check_revocation                         *)
(***************************************************************************)
Range(seq) == { seq[i] : i \in 1..Len(seq) }

Jtis == {"abc", "xyz"}

RevocationResponses ==
    { HttpResponse(200, TRUE, [revoked |-> <<"abc">>]),
      HttpResponse(200, TRUE, [revoked |-> <<>>]),
      HttpResponse(200, TRUE, [status |-> "ok"]),
      HttpResponse(200, FALSE, Text("<html>gateway</html>")),
      HttpResponse(401, TRUE, EmptyDict),
      HttpResponse(500, FALSE, Text("oops")),
      RequestError("ConnectError"), RequestError("ReadTimeout") }

check_revocation_optimistic(jti, resp) ==
    IF resp.kind = "request_error" THEN FALSE
    ELSE IF IsErrorStatus(resp.status) THEN FALSE
    ELSE IF ~resp.is_json THEN FALSE
    ELSE jti \in Range(Get(resp.body, "revoked", <<>>))

check_revocation(jti, resp) ==
    IF resp.kind = "request_error" THEN TRUE
    ELSE IF IsErrorStatus(resp.status) THEN TRUE
    ELSE IF ~resp.is_json THEN TRUE
    ELSE jti \in Range(Get(resp.body, "revoked", <<>>))

(***************************************************************************)
(* config.py: SwiftAPIConfig                                               *)
(***************************************************************************)
ApiKeys == {NoneStr, "", "swiftapi_live_k1"}

is_configured(cfg) == cfg.api_key # NoneStr /\ cfg.api_key # ""

(***************************************************************************)
(* tools.py: SwiftAPITools                                                 *)
(***************************************************************************)
\* attestation_provider argument of SwiftAPITools: nothing, a
\* NullAttestationProvider, or another AttestationProvider implementation
ExplicitProviders == {NoneStr, "null", "custom"}

init_provider_key_first(explicit, cfg) ==
    IF ~is_configured(cfg) THEN "none"
    ELSE IF explicit # NoneStr THEN explicit
    ELSE "swiftapi"

\* SwiftAPITools.__init__: which provider the tools end up with
init_provider(explicit, cfg) ==
    IF explicit # NoneStr THEN explicit
    ELSE IF is_configured(cfg) THEN "swiftapi"
    ELSE "none"

\* what an AttestationProvider implementation other than the two of
\* attestation.py may do in verify_action
CustomOutcomes ==
    { Return(DefaultResult(TRUE, "custom: ok")),
      Return(DefaultResult(FALSE, "custom: refused")),
      Raise(PolicyViolationError(<<"custom: denied">>, "quota", "P-1")),
      Raise(AttestationError(<<"custom: failure">>)) }

NotConfiguredMsg(action_name) ==
    <<"SwiftAPI not configured. Action", action_name, "blocked.",
      "Set SWIFTAPI_KEY environment variable or pass swiftapi_key parameter.">>

get_attestation_no_check(provider, action_name, provider_outcome) == provider_outcome

\* SwiftAPITools._get_attestation; provider_outcome is what
\* self._attestation_provider.verify_action(...) returns or raises
get_attestation(provider, action_name, provider_outcome) ==
    IF provider = "none"
    THEN Raise(AttestationError(NotConfiguredMsg(action_name)))
    ELSE provider_outcome

\* how act() ends
Executed == [kind |-> "executed", error |-> <<>>, raised |-> ""]
ActionResultError(msg) == [kind |-> "error", error |-> msg, raised |-> ""]
Unhandled(e) == [kind |-> "raised", error |-> <<>>, raised |-> e.cls]
Pending == [kind |-> "pending", error |-> <<>>, raised |-> ""]

act_result_ignores_approved(action_name, att) ==
    IF att.kind = "returned" THEN Executed
    ELSE IF att.exc.cls = "PolicyViolationError"
    THEN ActionResultError(
             <<"Action", action_name, "denied by policy:", att.exc.denial_reason>>)
    ELSE IF IsAttestationError(att.exc)
    THEN ActionResultError(
             <<"SwiftAPI attestation failed for", action_name, ":">> \o att.exc.msg)
    ELSE Unhandled(att.exc)

\* SwiftAPITools.act from the return of _get_attestation to its own return
act_result(action_name, att) ==
    IF att.kind = "returned"
    THEN IF ~att.value.approved
         THEN ActionResultError(
                  <<"Action", action_name, "blocked by SwiftAPI:", att.value.reason>>)
         ELSE Executed
    ELSE IF att.exc.cls = "PolicyViolationError"
    THEN ActionResultError(
             <<"Action", action_name, "denied by policy:", att.exc.denial_reason>>)
    ELSE IF IsAttestationError(att.exc)
    THEN ActionResultError(
             <<"SwiftAPI attestation failed for", action_name, ":">> \o att.exc.msg)
    ELSE Unhandled(att.exc)

\* action.model_dump(exclude_unset=True) with no action set
NoAction == ""
ProposedActions == {"click", "Click", "screenshot", "custom_tool"}

\* the keyword arguments act() hands to super().act()
super_act_args(action_name, attestation) == [action |-> action_name]

verify_posts_with_retry(closed) == IF closed THEN 0 ELSE 2

\* SwiftAPIClient.verify: the POST requests one call sends (none when
\* client.post raises on a closed AsyncClient)
verify_posts(closed) == IF closed THEN 0 ELSE 1

get_client_always_new(held, created) == Some(created + 1)

\* SwiftAPIClient._get_client: the session held after the call
get_client(held, created) == IF held = None THEN Some(created + 1) ELSE held

NoStats == [provider_calls |-> 0, posts |-> 0]
NoRevocation == [jti |-> "", resp |-> NoResponse, answer |-> FALSE, asked |-> FALSE]

(***************************************************************************)
(* Action fingerprints: sha256 over json.dumps(data, sort_keys=True).      *)
(* A dict is the sequence of its <<key, value>> items in insertion order;  *)
(* a JSON value is tagged with its type.                                   *)
(***************************************************************************)
MaxFingerprints == 2

JInt(n) == [int |-> n]
JStr(x) == [str |-> x]
JDict(items) == [dict |-> items]

\* the keys that occur, in the order of Python's str comparison
KeyOrder == <<"action", "index", "params", "text", "type", "url">>
KeyRank(k) == CHOOSE i \in 1..Len(KeyOrder) : KeyOrder[i] = k

RECURSIVE insert_item(_, _)
insert_item(item, sorted) ==
    IF sorted = <<>> THEN <<item>>
    ELSE IF KeyRank(item[1]) <= KeyRank(Head(sorted)[1])
         THEN <<item>> \o sorted
         ELSE <<Head(sorted)>> \o insert_item(item, Tail(sorted))

RECURSIVE sort_items(_)
sort_items(items) ==
    IF items = <<>> THEN <<>>
    ELSE insert_item(Head(items), sort_items(Tail(items)))

items_as_inserted(items) == items

\* sort_keys=True: the items of a dict are written in key order
sorted_items(items) == sort_items(items)

\* json.dumps with the default separators
RECURSIVE json_dumps(_, _)
RECURSIVE dumps_items(_, _)
json_dumps(v, sort_keys) ==
    IF "int" \in DOMAIN v THEN ToString(v.int)
    ELSE IF "str" \in DOMAIN v THEN "\"" \o v.str \o "\""
    ELSE "{" \o dumps_items(IF sort_keys THEN sorted_items(v.dict) ELSE v.dict,
                            sort_keys) \o "}"
dumps_items(items, sort_keys) ==
    IF items = <<>> THEN ""
    ELSE "\"" \o Head(items)[1] \o "\": " \o json_dumps(Head(items)[2], sort_keys)
         \o (IF Len(items) > 1 THEN ", " \o dumps_items(Tail(items), sort_keys)
             ELSE "")

\* hashlib.sha256(text.encode()).hexdigest(): distinct texts, distinct digests
sha256_hexdigest(text) == [sha256 |-> text]

\* tools._generate_action_fingerprint
generate_action_fingerprint(action_name, params) ==
    sha256_hexdigest(json_dumps(
        JDict(<< <<"action", JStr(action_name)>>, <<"params", JDict(params)>> >>),
        TRUE))

\* the action_fingerprint computed inside SwiftAPIClient.verify
verify_action_fingerprint(action_type, params) ==
    sha256_hexdigest(json_dumps(
        JDict(<< <<"type", JStr(action_type)>>, <<"params", JDict(params)>> >>),
        TRUE))

\* the params the fingerprints are computed for
ParamKeys == {"index", "text", "url"}
ParamValues(k) ==
    IF k = "index" THEN {JInt(1), JInt(5)}
    ELSE IF k = "text" THEN {JStr("hi"), JStr("5")}
    ELSE {JStr("https://a.example"), JStr("https://b.example")}
FingerprintedActions == {"click", "navigate", "screenshot"}

\* every dict over ParamKeys, in every insertion order
ParamDicts ==
    UNION { { d \in [1..n -> UNION { {<<k, v>> : v \in ParamValues(k)} : k \in ParamKeys }] :
                \A i, j \in 1..n : i # j => d[i][1] # d[j][1] } : n \in 0..Cardinality(ParamKeys) }

\* dict equality: the same keys with the same values, in whatever order
EqualDicts(d, e) == Range(d) = Range(e)

(***************************************************************************)
(* agent.py: SwiftAPIAgent.__init__, the tools it hands to Agent           *)
(***************************************************************************)
\* a SwiftAPITools object after SwiftAPITools.__init__
SwiftAPIToolsObject(cfg, explicit, attest_all, registry) ==
    [class |-> "SwiftAPITools", config |-> cfg, provider_arg |-> explicit,
     attestation_provider |-> init_provider(explicit, cfg),
     attest_all_actions |-> attest_all, registry |-> registry]
\* a browser-use Tools object that is not a SwiftAPITools
PlainTools ==
    [class |-> "Tools", config |-> [api_key |-> NoneStr, fail_open |-> FALSE],
     provider_arg |-> NoneStr, attestation_provider |-> "none",
     attest_all_actions |-> FALSE, registry |-> "registry of the given Tools"]
\* tools=None
NoTools ==
    [class |-> "NoneType", config |-> [api_key |-> NoneStr, fail_open |-> FALSE],
     provider_arg |-> NoneStr, attestation_provider |-> "none",
     attest_all_actions |-> FALSE, registry |-> ""]

\* tools or controller
or_else(a, b) == IF a.class # "NoneType" THEN a ELSE b

\* SwiftAPIAgent.__init__: the swiftapi_tools passed to Agent.__init__
agent_tools(cfg, provider, attest_all, tools, controller) ==
    LET provided_tools == or_else(tools, controller) IN
    IF provided_tools.class # "NoneType"
    THEN IF provided_tools.class = "SwiftAPITools"
         THEN provided_tools
         ELSE [SwiftAPIToolsObject(cfg, provider, attest_all, "own registry")
                   EXCEPT !.registry = provided_tools.registry]
    ELSE SwiftAPIToolsObject(cfg, provider, attest_all, "own registry")

\* the tools / controller arguments tried
GivenTools ==
    { NoTools, PlainTools,
      SwiftAPIToolsObject([api_key |-> NoneStr, fail_open |-> FALSE], "null", FALSE,
                          "own registry"),
      SwiftAPIToolsObject([api_key |-> "swiftapi_live_k1", fail_open |-> TRUE], NoneStr,
                          TRUE, "own registry") }
GivenControllers == { NoTools, PlainTools }

\* no SwiftAPIAgent: the tools were built directly
NoAgent ==
    [config |-> [api_key |-> NoneStr, fail_open |-> FALSE],
     attestation_provider |-> NoneStr, attest_all_actions |-> FALSE,
     tools |-> NoTools, controller |-> NoTools, swiftapi_tools |-> NoTools]
NoRun == [at |-> "none", how |-> "", close_calls |-> 0]

\* the task the agent's run() executes in
AgentTask == "t1"

(***************************************************************************)
(* attestation.py: context.request_id of a /verify request,                *)
(* f"bu_{datetime.now(timezone.utc).strftime('%Y%m%d%H%M%S%f')}"           *)
(***************************************************************************)
MaxClock == 5
MaxRequests == 3

\* the instant clock = 0 stands for: 2026-11-06 10:00:59.999998 UTC
BaseDateHour == <<"2", "0", "2", "6", "1", "1", "0", "6", "1", "0">>
BaseMicros == 59999998

Digits == <<"0", "1", "2", "3", "4", "5", "6", "7", "8", "9">>
RECURSIVE zero_padded(_, _)
\* a number written with `width` digits, as %M, %S (2) and %f (6) write it
zero_padded(n, width) ==
    IF width = 0 THEN <<>>
    ELSE Append(zero_padded(n \div 10, width - 1), Digits[(n % 10) + 1])

strftime(now) ==
    LET micros == BaseMicros + now
    IN  BaseDateHour \o zero_padded(micros \div 60000000, 2)
        \o zero_padded((micros \div 1000000) % 60, 2)
        \o zero_padded(micros % 1000000, 6)

\* the request_id of a verify call made when the clock reads `now`
request_id(now) == <<"b", "u", "_">> \o strftime(now)

\* Python's str comparison a < b, on the characters that occur
CharRank(ch) ==
    IF ch \in Range(Digits) THEN CHOOSE i \in 1..Len(Digits) : Digits[i] = ch
    ELSE IF ch = "_" THEN 11 ELSE IF ch = "b" THEN 12 ELSE 13
RECURSIVE str_less(_, _)
str_less(a, b) ==
    IF b = <<>> THEN FALSE
    ELSE IF a = <<>> THEN TRUE
    ELSE IF Head(a) # Head(b) THEN CharRank(Head(a)) < CharRank(Head(b))
    ELSE str_less(Tail(a), Tail(b))

(***************************************************************************)
(* Initial state: the tools after construction, no call begun              *)
(***************************************************************************)
Init ==
    /\ \E k \in ApiKeys, fo \in BOOLEAN :
           config = [api_key |-> k, fail_open |-> fo]
    /\ provider_arg \in ExplicitProviders
    /\ attestation_provider = init_provider(provider_arg, config)
    /\ attest_all_actions \in BOOLEAN
    /\ attestation_cache = EmptyDict
    /\ log_actions \in (IF attestation_provider = "null" THEN BOOLEAN ELSE {TRUE})
    /\ client = None
    /\ sessions_created = 0
    /\ open_sessions = {}
    /\ action_log = <<>>
    /\ null_calls = <<>>
    /\ pc = [t \in Tasks |-> "idle"]
    /\ action = [t \in Tasks |-> NoAction]
    /\ response = [t \in Tasks |-> NoResponse]
    /\ verdict = [t \in Tasks |-> NotCalled]
    /\ result = [t \in Tasks |-> Pending]
    /\ stats = [t \in Tasks |-> NoStats]
    /\ revocation = [t \in Tasks |-> NoRevocation]
    /\ executor_args = [t \in Tasks |-> None]
    /\ calls_started = 0
    /\ requests_sent = 0
    /\ fp_action = NoAction
    /\ fp_params = <<>>
    /\ fp_log = <<>>
    /\ clock = 0
    /\ request_ids = <<>>
    /\ sent_contexts = <<>>
    /\ agent = NoAgent
    /\ run = NoRun

\* a task can begin a call when it is not suspended inside one
Free(t) == pc[t] \in {"idle", "done"}

\* the session held by the client has been closed (close() is under way)
HeldIsClosed == client # None /\ client[1] \notin open_sessions

\* await self._get_client()
GetClient ==
    /\ client' = get_client(client, sessions_created)
    /\ sessions_created' = IF client' = client THEN sessions_created
                           ELSE sessions_created + 1
    /\ open_sessions' = IF client' = client THEN open_sessions
                        ELSE open_sessions \cup {client'[1]}

\* act() returns (or raises) in this step
Finish(t, name, resp, out, calls) ==
    LET att == get_attestation(attestation_provider, name, out)
        res == IF calls = 0 /\ attestation_provider # "none"
               THEN Executed ELSE act_result(name, att)
    IN
    /\ response' = [response EXCEPT ![t] = resp]
    /\ verdict' = [verdict EXCEPT ![t] = IF calls = 0 THEN NotCalled ELSE out]
    /\ result' = [result EXCEPT ![t] = res]
    /\ executor_args' = [executor_args EXCEPT ![t] =
                            IF res.kind = "executed"
                            THEN Some(super_act_args(name, att)) ELSE None]
    /\ pc' = [pc EXCEPT ![t] = "done"]

(***************************************************************************)
(* act(): from the call to its return, or to the await of POST /verify.    *)
(* A task's variables describe the call it is making or made last.         *)
(***************************************************************************)
Act(t) ==
    /\ Free(t)
    /\ UNCHANGED <<fingerprints, requests, agent, run>>
    /\ calls_started < MaxCalls
    /\ calls_started' = calls_started + 1
    /\ revocation' = [revocation EXCEPT ![t] = NoRevocation]
    /\ \E name \in ProposedActions \cup {NoAction} :
        LET required == name # NoAction
                        /\ requires_attestation(attest_all_actions, name)
        IN
        /\ action' = [action EXCEPT ![t] = name]
        /\ IF ~required
           THEN \* the loop asked for no attestation: super().act()
                /\ response' = [response EXCEPT ![t] = NoResponse]
                /\ verdict' = [verdict EXCEPT ![t] = NotCalled]
                /\ result' = [result EXCEPT ![t] = Executed]
                /\ executor_args' = [executor_args EXCEPT ![t] =
                                        Some(super_act_args(name, None))]
                /\ stats' = [stats EXCEPT ![t] = NoStats]
                /\ pc' = [pc EXCEPT ![t] = "done"]
                /\ UNCHANGED <<client, sessions_created, open_sessions, action_log,
                               null_calls, requests_sent>>
           ELSE IF attestation_provider = "swiftapi"
           THEN \* verify_action -> client.verify: _get_client(), then the POST
                /\ GetClient
                /\ stats' = [stats EXCEPT ![t] =
                                [provider_calls |-> 1,
                                 posts |-> verify_posts(HeldIsClosed)]]
                /\ IF HeldIsClosed
                   THEN \* client.post raises on the closed AsyncClient
                        /\ Finish(t, name, ClientClosed,
                                  verify_action(config.fail_open, name, ClientClosed), 1)
                        /\ UNCHANGED requests_sent
                   ELSE /\ requests_sent' = requests_sent + verify_posts(HeldIsClosed)
                        /\ response' = [response EXCEPT ![t] = NoResponse]
                        /\ verdict' = [verdict EXCEPT ![t] = NotCalled]
                        /\ result' = [result EXCEPT ![t] = Pending]
                        /\ executor_args' = [executor_args EXCEPT ![t] = None]
                        /\ pc' = [pc EXCEPT ![t] = "awaiting"]
                /\ UNCHANGED <<action_log, null_calls>>
           ELSE \E out \in (IF attestation_provider = "custom"
                            THEN CustomOutcomes ELSE {Return(NullResult)}) :
                LET called == attestation_provider # "none" IN
                /\ Finish(t, name, NoResponse, out, IF called THEN 1 ELSE 0)
                /\ stats' = [stats EXCEPT ![t] =
                                [provider_calls |-> IF called THEN 1 ELSE 0,
                                 posts |-> 0]]
                /\ action_log' = IF attestation_provider = "null"
                                 THEN null_log(log_actions, action_log, name)
                                 ELSE action_log
                /\ null_calls' = IF attestation_provider = "null"
                                 THEN Append(null_calls, name) ELSE null_calls
                /\ UNCHANGED <<client, sessions_created, open_sessions, requests_sent>>
    /\ UNCHANGED settings

(***************************************************************************)
(* act(): the POST /verify is answered; verify_action and act() finish     *)
(***************************************************************************)
ActResume(t) ==
    /\ pc[t] = "awaiting"
    /\ UNCHANGED <<fingerprints, requests, agent, run>>
    /\ \E resp \in VerifyResponses :
        Finish(t, action[t], resp, verify_action(config.fail_open, action[t], resp), 1)
    /\ UNCHANGED <<settings, client, sessions_created, open_sessions, action_log,
                   null_calls, action, stats, revocation, calls_started,
                   requests_sent>>

(***************************************************************************)
(* the caller of act() cancels its task while the POST is awaited          *)
(***************************************************************************)
Cancel(t) ==
    /\ pc[t] = "awaiting"
    /\ UNCHANGED <<fingerprints, requests, agent, run>>
    /\ Finish(t, action[t], Cancelled,
              verify_action(config.fail_open, action[t], Cancelled), 1)
    /\ UNCHANGED <<settings, client, sessions_created, open_sessions, action_log,
                   null_calls, action, stats, revocation, calls_started,
                   requests_sent>>

\* the task's record of an earlier act() is replaced
ForgetAct(t) ==
    /\ action' = [action EXCEPT ![t] = NoAction]
    /\ response' = [response EXCEPT ![t] = NoResponse]
    /\ verdict' = [verdict EXCEPT ![t] = NotCalled]
    /\ result' = [result EXCEPT ![t] = Pending]
    /\ stats' = [stats EXCEPT ![t] = NoStats]
    /\ executor_args' = [executor_args EXCEPT ![t] = None]

(***************************************************************************)
(* SwiftAPIClient.check_revocation, called on the provider's client        *)
(***************************************************************************)
CheckRevocation(t) ==
    /\ attestation_provider = "swiftapi"
    /\ UNCHANGED <<fingerprints, requests, agent, run>>
    /\ Free(t)
    /\ calls_started < MaxCalls
    /\ calls_started' = calls_started + 1
    /\ GetClient
    /\ \E jti \in Jtis,
          resp \in (IF HeldIsClosed THEN {ClientClosed} ELSE RevocationResponses) :
        revocation' = [revocation EXCEPT ![t] =
                          [jti |-> jti, resp |-> resp,
                           answer |-> check_revocation(jti, resp), asked |-> TRUE]]
    /\ ForgetAct(t)
    /\ pc' = [pc EXCEPT ![t] = "idle"]
    /\ UNCHANGED <<settings, action_log, null_calls, requests_sent>>

(***************************************************************************)
(* SwiftAPIClient.get_info, called on the provider's client                *)
(***************************************************************************)
GetInfo(t) ==
    /\ attestation_provider = "swiftapi"
    /\ UNCHANGED <<fingerprints, requests, agent, run>>
    /\ Free(t)
    /\ calls_started < MaxCalls
    /\ calls_started' = calls_started + 1
    /\ GetClient
    /\ revocation' = [revocation EXCEPT ![t] = NoRevocation]
    /\ ForgetAct(t)
    /\ pc' = [pc EXCEPT ![t] = "idle"]
    /\ UNCHANGED <<settings, action_log, null_calls, requests_sent>>

(***************************************************************************)
(* SwiftAPITools.close -> provider.close -> SwiftAPIClient.close:          *)
(* up to `await self._client.aclose()`, then `self._client = None`.        *)
(* A close() that finds no session to close changes nothing.               *)
(***************************************************************************)
close_skipped(provider, held) == FALSE

\* tools.close() reaches `await self._client.aclose()`: the provider has a
\* close() (SwiftAPIAttestationProvider) and its client holds a session
close_awaits(provider, held) == provider = "swiftapi" /\ held # None

BeginClose(t) ==
    /\ IF close_awaits(attestation_provider, client)
       THEN /\ open_sessions' = open_sessions \ {client[1]}
            /\ revocation' = [revocation EXCEPT ![t] = NoRevocation]
            /\ ForgetAct(t)
            /\ pc' = [pc EXCEPT ![t] = "closing"]
       ELSE UNCHANGED <<open_sessions, revocation, pc, action, response, verdict,
                        result, stats, executor_args>>
    /\ UNCHANGED <<settings, client, sessions_created, action_log, null_calls,
                   calls_started, requests_sent>>

CloseBegin(t) ==
    /\ Free(t)
    /\ UNCHANGED <<fingerprints, requests, agent, run>>
    /\ BeginClose(t)

\* aclose() is over: self._client = None
EndClose(t) ==
    /\ client' = None
    /\ pc' = [pc EXCEPT ![t] = "idle"]
    /\ UNCHANGED <<settings, sessions_created, open_sessions, action_log, null_calls,
                   action, response, verdict, result, stats, revocation,
                   executor_args, calls_started, requests_sent>>

CloseFinish(t) ==
    /\ pc[t] = "closing"
    /\ UNCHANGED <<fingerprints, requests, agent, run>>
    /\ EndClose(t)

Next ==
    \/ \E t \in Tasks : Act(t)
    \/ \E t \in Tasks : ActResume(t)
    \/ \E t \in Tasks : Cancel(t)
    \/ \E t \in Tasks : CheckRevocation(t)
    \/ \E t \in Tasks : GetInfo(t)
    \/ \E t \in Tasks : CloseBegin(t)
    \/ \E t \in Tasks : CloseFinish(t)

Spec == Init /\ [][Next]_vars

(***************************************************************************)
(* The fingerprint functions applied to every action type and params dict  *)
(* of the bounded sets, the tools being idle.                              *)
(***************************************************************************)
FpInit ==
    /\ config = [api_key |-> NoneStr, fail_open |-> FALSE]
    /\ provider_arg = NoneStr
    /\ attestation_provider = "none"
    /\ attest_all_actions = FALSE
    /\ attestation_cache = EmptyDict
    /\ log_actions = TRUE
    /\ client = None
    /\ sessions_created = 0
    /\ open_sessions = {}
    /\ action_log = <<>>
    /\ null_calls = <<>>
    /\ pc = [t \in Tasks |-> "idle"]
    /\ action = [t \in Tasks |-> NoAction]
    /\ response = [t \in Tasks |-> NoResponse]
    /\ verdict = [t \in Tasks |-> NotCalled]
    /\ result = [t \in Tasks |-> Pending]
    /\ stats = [t \in Tasks |-> NoStats]
    /\ revocation = [t \in Tasks |-> NoRevocation]
    /\ executor_args = [t \in Tasks |-> None]
    /\ calls_started = 0
    /\ requests_sent = 0
    /\ fp_action \in FingerprintedActions
    /\ fp_params \in ParamDicts
    /\ fp_log = <<>>
    /\ clock = 0
    /\ request_ids = <<>>
    /\ sent_contexts = <<>>
    /\ agent = NoAgent
    /\ run = NoRun

Idle == UNCHANGED <<config, attestation_provider, attest_all_actions,
                    attestation_cache, client, action_log, pc, action, response,
                    verdict, result, stats, revocation, calls_started,
                    requests_sent, log_actions, null_calls, executor_args,
                    sessions_created, open_sessions, provider_arg>>

FpEntry(site, digest) == [site |-> site, params |-> fp_params, digest |-> digest]

\* _generate_action_fingerprint(action_name, params) is called
GenerateActionFingerprint ==
    /\ Len(fp_log) < MaxFingerprints
    /\ fp_log' = Append(fp_log,
           FpEntry("tools", generate_action_fingerprint(fp_action, fp_params)))
    /\ UNCHANGED <<fp_action, fp_params, requests, agent, run>>
    /\ Idle

\* SwiftAPIClient.verify(action_type, intent, params) computes its fingerprint
VerifyFingerprint ==
    /\ Len(fp_log) < MaxFingerprints
    /\ fp_log' = Append(fp_log,
           FpEntry("client", verify_action_fingerprint(fp_action, fp_params)))
    /\ UNCHANGED <<fp_action, fp_params, requests, agent, run>>
    /\ Idle

\* the caller builds an equal params dict in another key order
RebuildParams ==
    /\ \E d \in ParamDicts :
          /\ d # fp_params
          /\ EqualDicts(d, fp_params)
          /\ fp_params' = d
    /\ UNCHANGED <<fp_action, fp_log, requests, agent, run>>
    /\ Idle

FpNext ==
    \/ GenerateActionFingerprint
    \/ VerifyFingerprint
    \/ RebuildParams

FpSpec == FpInit /\ [][FpNext]_vars

(***************************************************************************)
(* The context of a /verify request: tools._get_attestation builds the     *)
(* attestation context, SwiftAPIClient.verify merges it into its own.      *)
(***************************************************************************)
\* {**a, **b}: the keys of both, b's value where both have the key
dict_merge(a, b) ==
    [k \in DOMAIN a \cup DOMAIN b |-> IF k \in DOMAIN b THEN b[k] ELSE a[k]]

\* context or {}
or_empty(ctx) == ctx

\* SwiftAPIConfig.app_id and SwiftAPIConfig.actor of the client's configuration
ClientIdentity == [app_id |-> "browser-use", actor |-> "browser-use-agent"]

\* datetime.now(timezone.utc).isoformat()
isoformat(now) == <<"2026-11-06T10:", ToString(now)>>

\* tools._get_attestation: the context passed to provider.verify_action
attestation_context(page_url, now, context) ==
    dict_merge([page_url |-> page_url, timestamp |-> isoformat(now)],
               or_empty(context))

\* SwiftAPIClient.verify: payload["context"]
payload_context(context, now) ==
    dict_merge([app_id |-> ClientIdentity.app_id, actor |-> ClientIdentity.actor,
                environment |-> "production", request_id |-> request_id(now)],
               or_empty(context))

\* the context argument a caller gives: None or {}, keys of its own, and
\* keys that bear the names of the client's identity fields
CallerContexts ==
    { EmptyDict,
      [session |-> "s-1"],
      [actor |-> "admin", session |-> "s-1"],
      [request_id |-> <<"x">>, environment |-> "staging", app_id |-> "other"] }

IdentityFields == {"app_id", "actor", "environment", "request_id"}

\* no call has been made on the tools
NoCallYet ==
    /\ attestation_cache = EmptyDict
    /\ client = None
    /\ sessions_created = 0
    /\ open_sessions = {}
    /\ action_log = <<>>
    /\ null_calls = <<>>
    /\ pc = [t \in Tasks |-> "idle"]
    /\ action = [t \in Tasks |-> NoAction]
    /\ response = [t \in Tasks |-> NoResponse]
    /\ verdict = [t \in Tasks |-> NotCalled]
    /\ result = [t \in Tasks |-> Pending]
    /\ stats = [t \in Tasks |-> NoStats]
    /\ revocation = [t \in Tasks |-> NoRevocation]
    /\ executor_args = [t \in Tasks |-> None]
    /\ calls_started = 0
    /\ requests_sent = 0

(***************************************************************************)
(* The request_id of the verify calls of one client, the clock advancing   *)
(* between and during the calls as the platform's clock does.              *)
(***************************************************************************)
RequestInit ==
    /\ config = [api_key |-> "swiftapi_live_k1", fail_open |-> FALSE]
    /\ provider_arg = NoneStr
    /\ attestation_provider = init_provider(provider_arg, config)
    /\ attest_all_actions = FALSE
    /\ log_actions = TRUE
    /\ NoCallYet
    /\ fp_action = NoAction
    /\ fp_params = <<>>
    /\ fp_log = <<>>
    /\ clock = 0
    /\ request_ids = <<>>
    /\ sent_contexts = <<>>
    /\ agent = NoAgent
    /\ run = NoRun

\* the clock reading changes: one microsecond has passed since the last change
Tick ==
    /\ clock < MaxClock
    /\ clock' = clock + 1
    /\ UNCHANGED <<request_ids, sent_contexts, fingerprints, agent, run>>
    /\ Idle

\* _get_attestation(..., context=ctx) -> verify_action -> SwiftAPIClient.verify,
\* which builds the payload of a request
VerifyBuildsPayload ==
    /\ Len(request_ids) < MaxRequests
    /\ request_ids' = Append(request_ids, request_id(clock))
    /\ \E ctx \in CallerContexts :
           sent_contexts' = Append(sent_contexts,
               [given |-> ctx,
                context |-> payload_context(attestation_context(NoneStr, clock, ctx),
                                            clock)])
    /\ UNCHANGED <<clock, fingerprints, agent, run>>
    /\ Idle

RequestNext ==
    \/ Tick
    \/ VerifyBuildsPayload

RequestSpec == RequestInit /\ [][RequestNext]_vars

(***************************************************************************)
(* A SwiftAPIAgent: built from its arguments, then run(): super().run()    *)
(* proposes actions to the tools until it returns or raises, and the       *)
(* finally clause closes the tools.                                        *)
(***************************************************************************)
AgentInit ==
    /\ \E k \in ApiKeys, fo \in BOOLEAN, p \in ExplicitProviders, a \in BOOLEAN,
          tl \in GivenTools, c \in GivenControllers :
          agent = [config |-> [api_key |-> k, fail_open |-> fo],
                   attestation_provider |-> p, attest_all_actions |-> a,
                   tools |-> tl, controller |-> c,
                   swiftapi_tools |->
                       agent_tools([api_key |-> k, fail_open |-> fo], p, a, tl, c)]
    /\ config = agent.swiftapi_tools.config
    /\ provider_arg = agent.swiftapi_tools.provider_arg
    /\ attestation_provider = agent.swiftapi_tools.attestation_provider
    /\ attest_all_actions = agent.swiftapi_tools.attest_all_actions
    /\ log_actions \in (IF attestation_provider = "null" THEN BOOLEAN ELSE {TRUE})
    /\ NoCallYet
    /\ fp_action = NoAction
    /\ fp_params = <<>>
    /\ fp_log = <<>>
    /\ clock = 0
    /\ request_ids = <<>>
    /\ sent_contexts = <<>>
    /\ run = [at |-> "running", how |-> "", close_calls |-> 0]

\* a step of super().run() calls tools.act()
RunActs ==
    /\ run.at = "running"
    /\ result[AgentTask].raised # "CancelledError"
    /\ Act(AgentTask)

\* the act() of a step gets its answer
RunActResumes ==
    /\ run.at = "running"
    /\ ActResume(AgentTask)

\* the task of run() is cancelled while act() awaits the authority
RunCancelled ==
    /\ run.at = "running"
    /\ Cancel(AgentTask)

\* super().run() returns or raises; the finally clause calls tools.close(),
\* which runs up to the await of aclose() or, with nothing to close, to its end
RunExits ==
    /\ run.at = "running"
    /\ Free(AgentTask)
    /\ \E how \in {"returned", "raised"} :
           /\ result[AgentTask].raised # "" => how = "raised"
           /\ run' = [at |-> IF close_awaits(attestation_provider, client)
                             THEN "closing" ELSE "finished",
                      how |-> how, close_calls |-> run.close_calls + 1]
    /\ BeginClose(AgentTask)
    /\ UNCHANGED <<fingerprints, requests, agent>>

\* aclose() is over, close() and run() finish
RunFinishes ==
    /\ run.at = "closing"
    /\ pc[AgentTask] = "closing"
    /\ run' = [run EXCEPT !.at = "finished"]
    /\ EndClose(AgentTask)
    /\ UNCHANGED <<fingerprints, requests, agent>>

AgentNext ==
    \/ RunActs
    \/ RunActResumes
    \/ RunCancelled
    \/ RunExits
    \/ RunFinishes

AgentSpec == AgentInit /\ [][AgentNext]_vars

(***************************************************************************)
(* Vocabulary of the properties                                            *)
(***************************************************************************)
Done(t) == pc[t] = "done"
ExecutorInvoked(t) == result[t].kind = "executed"
Blocked(t) == result[t].kind = "error" /\ result[t].error # <<>>
Approved(v) == v.kind = "returned" /\ v.value.approved
\* the tools were built without an explicit attestation_provider
NoExplicitProvider == attestation_provider \notin {"null", "custom"}
\* the task's act() sent a /verify request and it has been answered
Answered(t) ==
    Done(t) /\ stats[t].posts = 1 /\ response[t].kind \in {"response", "request_error"}
Unreachable(resp) == resp.kind = "request_error"

(***************************************************************************)
(* C1: tools built with no API key and no explicit provider block every    *)
(* high-risk action (every action when attest_all_actions) with a "not     *)
(* configured" reason, without invoking the executor, calling a provider   *)
(* or sending a request, whatever fail_open is.                            *)
(***************************************************************************)
C1_FailClosedWhenNotConfigured ==
    (~is_configured(config) /\ NoExplicitProvider) =>
        /\ requests_sent = 0
        /\ client = None
        /\ \A t \in Tasks :
             (Done(t) /\ (lower(action[t]) \in HIGH_RISK_ACTIONS
                          \/ (attest_all_actions /\ action[t] # NoAction))) =>
                 /\ Blocked(t)
                 /\ Contains(result[t].error, "SwiftAPI not configured. Action")
                 /\ ~ExecutorInvoked(t)
                 /\ stats[t] = NoStats

C1_Witness ==
    \E t \in Tasks :
        /\ ~is_configured(config) /\ NoExplicitProvider /\ config.fail_open
        /\ Done(t) /\ action[t] = "click" /\ Blocked(t)

(***************************************************************************)
(* C2: for an action that requires attestation the executor is invoked     *)
(* only once verify_action has returned approved=true; while the call is   *)
(* in flight nothing is executed; a Blocked decision (denial, attestation  *)
(* error, approved=false) gives an ActionResult with an error and no       *)
(* executor call.                                                          *)
(***************************************************************************)
BlockedDecision(t) ==
    \/ verdict[t].kind = "raised" /\ IsAttestationError(verdict[t].exc)
    \/ verdict[t].kind = "returned" /\ ~verdict[t].value.approved

C2_ExecuteOnlyAfterApproval ==
    \A t \in Tasks :
        (action[t] # NoAction /\ requires_attestation(attest_all_actions, action[t])) =>
            /\ pc[t] = "awaiting" => ~ExecutorInvoked(t)
            /\ (Done(t) /\ ExecutorInvoked(t)) =>
                   (Approved(verdict[t]) /\ stats[t].provider_calls = 1)
            /\ (Done(t) /\ BlockedDecision(t)) =>
                   (Blocked(t) /\ ~ExecutorInvoked(t))

C2_Witness ==
    \E t, u \in Tasks :
        /\ Answered(t) /\ action[t] = "click" /\ response[t].status = 200
        /\ Approved(verdict[t]) /\ verdict[t].value.jti = "abc" /\ ExecutorInvoked(t)
        /\ Done(u) /\ BlockedDecision(u) /\ Blocked(u)

(***************************************************************************)
(* C3: fail_open=true and an unreachable authority: verify_action returns  *)
(* approved=true with empty jti, no artifact and the fail-open reason, and *)
(* act() invokes the executor.                                             *)
(***************************************************************************)
C3_FailOpenApprovesUnreachable ==
    \A t \in Tasks :
        (Answered(t) /\ config.fail_open /\ Unreachable(response[t])) =>
            /\ Approved(verdict[t])
            /\ verdict[t].value.jti = ""
            /\ verdict[t].value.attestation = None
            /\ verdict[t].value.reason = "SwiftAPI unreachable, fail_open mode"
            /\ ExecutorInvoked(t)

C3_Witness ==
    \E t \in Tasks :
        /\ Answered(t) /\ config.fail_open /\ response[t] = RequestError("ReadTimeout")
        /\ ExecutorInvoked(t)

(***************************************************************************)
(* C4: fail_open=false and an unreachable authority: verify_action raises  *)
(* the AttestationError, act() is Blocked with the error detail in its     *)
(* reason, and the executor is not invoked.                                *)
(***************************************************************************)
C4_FailClosedBlocksUnreachable ==
    \A t \in Tasks :
        (Answered(t) /\ ~config.fail_open /\ Unreachable(response[t])) =>
            /\ verdict[t].kind = "raised"
            /\ verdict[t].exc.cls = "AttestationError"
            /\ Blocked(t)
            /\ Contains(result[t].error, "SwiftAPI unreachable:")
            /\ Contains(result[t].error, response[t].error)
            /\ ~ExecutorInvoked(t)

C4_Witness ==
    \E t \in Tasks :
        /\ Answered(t) /\ ~config.fail_open /\ response[t] = RequestError("ConnectError")
        /\ Blocked(t)

(***************************************************************************)
(* C5: fail_open approves only when the authority is unreachable: an       *)
(* answer with status 401, or another error status that is no denial, is   *)
(* Blocked even when fail_open=true.                                       *)
(***************************************************************************)
ErrorStatusNoDenial(resp) ==
    resp.kind = "response" /\ IsErrorStatus(resp.status) /\ resp.status # 403

C5_FailOpenOnlyForUnreachable ==
    \A t \in Tasks :
        (Answered(t) /\ ErrorStatusNoDenial(response[t])) =>
            (Blocked(t) /\ ~ExecutorInvoked(t))

(***************************************************************************)
(* C6: an explicit denial by the authority (a 403, or a 200 whose approved *)
(* is false) raises PolicyViolationError and is Blocked for both values of *)
(* fail_open.                                                              *)
(***************************************************************************)
ExplicitDenial(resp) ==
    /\ resp.kind = "response"
    /\ \/ resp.status = 403
       \/ /\ resp.status = 200 /\ resp.is_json
          /\ "approved" \in DOMAIN resp.body
          /\ resp.body["approved"] = FALSE

C6_DenialNeverFailsOpen ==
    \A t \in Tasks :
        (Answered(t) /\ ExplicitDenial(response[t])) =>
            /\ verdict[t].kind = "raised"
            /\ verdict[t].exc.cls = "PolicyViolationError"
            /\ Blocked(t)
            /\ ~ExecutorInvoked(t)

C6_Witness ==
    \E t, u \in Tasks :
        /\ config.fail_open
        /\ Answered(t) /\ response[t].status = 403 /\ Blocked(t)
        /\ Answered(u) /\ response[u].status = 200 /\ ExplicitDenial(response[u])
        /\ Blocked(u)

(***************************************************************************)
(* C7: a denial carrying a reason and a policy_id is Blocked with exactly  *)
(* that reason and that policy id in what act() returns.                   *)
(***************************************************************************)
DenialWithPolicy(resp) ==
    /\ ExplicitDenial(resp) /\ resp.is_json
    /\ "reason" \in DOMAIN resp.body /\ "policy_id" \in DOMAIN resp.body

C7_DenialReasonAndPolicySurfaced ==
    \A t \in Tasks :
        (Answered(t) /\ DenialWithPolicy(response[t])) =>
            /\ Blocked(t)
            /\ Contains(result[t].error, response[t].body["reason"])
            /\ Contains(result[t].error, response[t].body["policy_id"])

(***************************************************************************)
(* C8: check_revocation answers true for every jti when the lookup cannot  *)
(* complete (network failure, error status, unparsable body); it answers   *)
(* false only when the lookup succeeded and the jti is not in the revoked  *)
(* set it returned.                                                        *)
(***************************************************************************)
LookupCompleted(resp) ==
    resp.kind = "response" /\ ~IsErrorStatus(resp.status) /\ resp.is_json
RevokedSet(resp) ==
    IF "revoked" \in DOMAIN resp.body
    THEN { resp.body["revoked"][i] : i \in DOMAIN resp.body["revoked"] }
    ELSE {}

C8_RevocationConservative ==
    \A t \in Tasks :
        revocation[t].asked =>
            /\ ~LookupCompleted(revocation[t].resp) => revocation[t].answer
            /\ ~revocation[t].answer =>
                   /\ LookupCompleted(revocation[t].resp)
                   /\ revocation[t].jti \notin RevokedSet(revocation[t].resp)

C8_Witness ==
    \E t, u \in Tasks :
        /\ revocation[t].asked /\ Unreachable(revocation[t].resp) /\ revocation[t].answer
        /\ revocation[u].asked /\ LookupCompleted(revocation[u].resp)
        /\ ~revocation[u].answer

(***************************************************************************)
(* C9: act() on a read-only action with attest_all_actions=false calls no  *)
(* provider (the call counts stay as they were) and invokes the executor,  *)
(* whatever the provider is, none included.                                *)
(***************************************************************************)
C9_ReadOnlyPassthrough ==
    [][ \A t \in Tasks :
          (Act(t) /\ ~attest_all_actions /\ lower(action'[t]) \in READ_ONLY_ACTIONS) =>
              /\ stats'[t].provider_calls = 0
              /\ action_log' = action_log
              /\ requests_sent' = requests_sent
              /\ client' = client
              /\ pc'[t] = "done"
              /\ ExecutorInvoked(t)' ]_vars

C9_Witness ==
    \E t \in Tasks :
        /\ ~attest_all_actions /\ attestation_provider = "none"
        /\ Done(t) /\ action[t] = "screenshot" /\ ExecutorInvoked(t)
        /\ stats[t].provider_calls = 0

(***************************************************************************)
(* C10: with attest_all_actions=true _requires_attestation is true for     *)
(* every action name (high-risk, read-only, unknown), so no action reaches *)
(* the executor without an approving provider decision.                    *)
(***************************************************************************)
C10_AttestAllCoversEveryAction ==
    attest_all_actions =>
        /\ \A n \in ActionNames : requires_attestation(attest_all_actions, n)
        /\ \A t \in Tasks :
             (Done(t) /\ action[t] # NoAction /\ ExecutorInvoked(t)) =>
                 (stats[t].provider_calls = 1 /\ Approved(verdict[t]))

C10_Witness ==
    \E t, u \in Tasks :
        /\ attest_all_actions
        /\ Done(t) /\ action[t] = "screenshot" /\ ExecutorInvoked(t)
        /\ Approved(verdict[t])
        /\ Done(u) /\ action[u] = "custom_tool" /\ Blocked(u)

(***************************************************************************)
(* C11: an action name in neither set is treated as high-risk: with        *)
(* attest_all_actions=false it is not executed without an approving        *)
(* provider decision.                                                      *)
(***************************************************************************)
Unclassified(name) ==
    name # NoAction /\ lower(name) \notin (HIGH_RISK_ACTIONS \cup READ_ONLY_ACTIONS)

C11_UnknownDefaultsToHighRisk ==
    \A t \in Tasks :
        (Done(t) /\ ~attest_all_actions /\ Unclassified(action[t])
         /\ ExecutorInvoked(t)) =>
            (stats[t].provider_calls = 1 /\ Approved(verdict[t]))

(***************************************************************************)
(* C12: every act() call that is not abandoned by its caller ends Approved *)
(* (executor invoked) or Blocked (error result): no failure of the         *)
(* attestation path, a malformed success response included, escapes act()  *)
(* as an exception.                                                        *)
(***************************************************************************)
C12_EveryActEndsApprovedOrBlocked ==
    \A t \in Tasks :
        (Done(t) /\ response[t].kind # "cancelled") =>
            /\ ExecutorInvoked(t) \/ Blocked(t)
            /\ result[t].raised = ""

(***************************************************************************)
(* C13: NullAttestationProvider.verify_action approves every action        *)
(* without contacting an authority and records every call: after n calls   *)
(* the action log holds n entries, one per call, in call order.            *)
(***************************************************************************)
NullApprovesOffline ==
    /\ requests_sent = 0
    /\ client = None
    /\ \A t \in Tasks :
         (Done(t) /\ stats[t].provider_calls = 1) =>
             (Approved(verdict[t]) /\ verdict[t].value.jti = "")
LogMatchesCalls ==
    /\ Len(action_log) = Len(null_calls)
    /\ \A i \in 1..Len(null_calls) : action_log[i].action_type = null_calls[i]

C14_AttestationHandedToExecutor ==
    \A t \in Tasks :
        (Done(t) /\ ExecutorInvoked(t) /\ Approved(verdict[t])
         /\ verdict[t].value.attestation # None) =>
            /\ executor_args[t] # None
            /\ "attestation" \in DOMAIN executor_args[t][1]
            /\ executor_args[t][1]["attestation"] = verdict[t].value

(***************************************************************************)
(* C15: for a success response with approved=true the AttestationResult    *)
(* carries jti and expires_at of the response's execution_attestation and  *)
(* its verification_id, decision_hash, action_fingerprint and              *)
(* policy_bundle_hash unchanged; without execution_attestation jti is      *)
(* empty and the artifact absent.                                          *)
(***************************************************************************)
ApprovedResponse(resp) ==
    /\ resp.kind = "response" /\ resp.status = 200 /\ resp.is_json
    /\ "approved" \in DOMAIN resp.body /\ resp.body["approved"] = TRUE

C15_ResultCarriesResponseFields ==
    \A t \in Tasks :
        (Answered(t) /\ ApprovedResponse(response[t])) =>
            LET b == response[t].body
                v == verdict[t].value
            IN  /\ Approved(verdict[t])
                /\ \A k \in {"verification_id", "decision_hash", "action_fingerprint",
                             "policy_bundle_hash"} :
                       k \in DOMAIN b => v[k] = b[k]
                /\ IF "execution_attestation" \in DOMAIN b
                   THEN /\ v.jti = b["execution_attestation"]["jti"]
                        /\ v.expires_at = b["execution_attestation"]["expires_at"]
                        /\ v.attestation = Some(b["execution_attestation"])
                   ELSE v.jti = "" /\ v.attestation = None

C15_Witness ==
    \E t, u \in Tasks :
        /\ Answered(t) /\ ApprovedResponse(response[t])
        /\ verdict[t].value.jti = "abc" /\ verdict[t].value.verification_id = "v-1"
        /\ Answered(u) /\ ApprovedResponse(response[u])
        /\ "execution_attestation" \notin DOMAIN response[u].body
        /\ verdict[u].value.jti = ""

(***************************************************************************)
(* C18: a SwiftAPIClient has at most one transport session at any time:    *)
(* none before the first call, one created by the first call and reused    *)
(* until close(), none once close() is over; under any interleaving.       *)
(***************************************************************************)
CloseUnderWay == \E t \in Tasks : pc[t] = "closing"

C18_AtMostOneSession ==
    /\ Cardinality(open_sessions) <= 1
    /\ sessions_created = 0 => client = None
    /\ (client # None /\ ~CloseUnderWay) => open_sessions = {client[1]}
    /\ (client = None /\ ~CloseUnderWay) => open_sessions = {}

(***************************************************************************)
(* C19: a verification cancelled while the authority call is in flight is  *)
(* never treated as approved: the executor is not invoked, whatever        *)
(* fail_open is.                                                           *)
(***************************************************************************)
C19_CancelledNeverApproved ==
    \A t \in Tasks :
        (Done(t) /\ response[t].kind = "cancelled") =>
            /\ ~Approved(verdict[t])
            /\ ~ExecutorInvoked(t)
            /\ executor_args[t] = None
            /\ result[t].raised = "CancelledError"

C19_Witness ==
    \E t \in Tasks :
        /\ config.fail_open /\ Done(t) /\ response[t].kind = "cancelled"
        /\ stats[t].posts = 1 /\ ~ExecutorInvoked(t)

(***************************************************************************)
(* C20: no action reaches the executor on the strength of an attestation   *)
(* whose expires_at has already passed when the decision is made.          *)
(***************************************************************************)
C20_NoExecutionOnExpiredAttestation ==
    \A t \in Tasks :
        (Done(t) /\ ExecutorInvoked(t) /\ Approved(verdict[t])) =>
            verdict[t].value.expires_at \notin PastStamps

(***************************************************************************)
(* C16: the action fingerprint is deterministic: equal params dicts built  *)
(* in different key orders, and repeated computations on the same input,   *)
(* give the same digest (at each of the two call sites).                   *)
(***************************************************************************)
C16_FingerprintDeterministic ==
    \A i, j \in 1..Len(fp_log) :
        (fp_log[i].site = fp_log[j].site /\ EqualDicts(fp_log[i].params, fp_log[j].params))
            => fp_log[i].digest = fp_log[j].digest

C16_Witness ==
    \E i, j \in 1..Len(fp_log) :
        /\ i # j
        /\ fp_log[i].site = fp_log[j].site
        /\ Len(fp_log[i].params) = 3
        /\ fp_log[i].params # fp_log[j].params
        /\ fp_log[i].digest = fp_log[j].digest

(***************************************************************************)
(* C17: for the same action type and params the digest of                  *)
(* _generate_action_fingerprint equals the digest computed inside          *)
(* SwiftAPIClient.verify.                                                  *)
(***************************************************************************)
C17_SameFingerprintAtBothCallSites ==
    \A i, j \in 1..Len(fp_log) :
        (fp_log[i].site = "tools" /\ fp_log[j].site = "client")
            => fp_log[i].digest = fp_log[j].digest

(***************************************************************************)
(* C22: HIGH_RISK_ACTIONS and READ_ONLY_ACTIONS are disjoint: every known  *)
(* action type is a member of exactly one of them.                         *)
(***************************************************************************)
KnownActions == HIGH_RISK_ACTIONS \cup READ_ONLY_ACTIONS

C22_ClassesDisjoint ==
    /\ HIGH_RISK_ACTIONS \cap READ_ONLY_ACTIONS = {}
    /\ \A t \in Tasks :
         lower(action[t]) \in KnownActions =>
             (lower(action[t]) \in HIGH_RISK_ACTIONS) # (lower(action[t]) \in READ_ONLY_ACTIONS)

C22_Witness ==
    \E t, u \in Tasks :
        /\ Done(t) /\ action[t] = "click" /\ stats[t].provider_calls = 1
        /\ Done(u) /\ action[u] = "screenshot" /\ stats[u].provider_calls = 0

CredentialRejected ==
    \E t \in Tasks :
        Done(t) /\ response[t].kind = "response" /\ response[t].status = 401

C24_NoRequestAfterRejectedCredential ==
    [][CredentialRejected => requests_sent' = requests_sent]_vars

(***************************************************************************)
(* C25: a /verify call whose timeout expires ends as the unreachable       *)
(* authority error (AttestationError "SwiftAPI unreachable") and is        *)
(* handled as any other unreachable-authority failure: approved under      *)
(* fail_open, blocked otherwise.                                           *)
(***************************************************************************)
TimedOut(t) == Answered(t) /\ response[t] = RequestError("ReadTimeout")

C25_TimeoutIsUnreachable ==
    \A t \in Tasks :
        TimedOut(t) =>
            LET other == verify_action(config.fail_open, action[t],
                                       RequestError("ConnectError"))
            IN  /\ result[t].raised = ""
                /\ verdict[t].kind = other.kind
                /\ IF config.fail_open
                   THEN verdict[t] = other /\ ExecutorInvoked(t)
                   ELSE /\ verdict[t].exc.cls = "AttestationError"
                        /\ verdict[t].exc.cls = other.exc.cls
                        /\ Contains(verdict[t].exc.msg, "SwiftAPI unreachable:")
                        /\ Contains(verdict[t].exc.msg, "ReadTimeout")
                        /\ Blocked(t)
                        /\ Contains(result[t].error, "SwiftAPI unreachable:")

C25_Witness ==
    \E t, u \in Tasks :
        /\ TimedOut(t) /\ TimedOut(u)
        /\ \/ config.fail_open /\ ExecutorInvoked(t)
           \/ ~config.fail_open /\ Blocked(t)

(***************************************************************************)
(* C27: an attestation_provider passed to SwiftAPITools is the one         *)
(* consulted for every action that requires attestation, also when no API  *)
(* key is configured; the "not configured" block happens only when no      *)
(* provider was passed and no key is configured.                           *)
(***************************************************************************)
NotConfiguredBlock(t) ==
    Done(t) /\ Blocked(t) /\ Contains(result[t].error, "SwiftAPI not configured. Action")

C27_ExplicitProviderTakesPrecedence ==
    /\ provider_arg # NoneStr =>
           /\ attestation_provider = provider_arg
           /\ requests_sent = 0
           /\ \A t \in Tasks :
                (Done(t) /\ action[t] # NoAction
                 /\ requires_attestation(attest_all_actions, action[t])) =>
                    (stats[t].provider_calls = 1 /\ ~NotConfiguredBlock(t))
    /\ \A t \in Tasks :
           NotConfiguredBlock(t) => (provider_arg = NoneStr /\ ~is_configured(config))

C27_Witness ==
    \E t \in Tasks :
        /\ provider_arg = "null" /\ ~is_configured(config)
        /\ Done(t) /\ action[t] = "click" /\ stats[t].provider_calls = 1
        /\ ExecutorInvoked(t)

(***************************************************************************)
(* C28: a 200 response whose approved field is false or missing is a       *)
(* denial: verify_action raises PolicyViolationError with the response's   *)
(* reason (or the default reason), the action ends Blocked and is never    *)
(* approved, whatever fail_open is.                                        *)
(***************************************************************************)
NotApprovedResponse(resp) ==
    /\ resp.kind = "response" /\ resp.status = 200 /\ resp.is_json
    /\ ("approved" \notin DOMAIN resp.body \/ resp.body["approved"] = FALSE)

C28_UnapprovedSuccessIsDenial ==
    \A t \in Tasks :
        (Answered(t) /\ NotApprovedResponse(response[t])) =>
            LET reason == IF "reason" \in DOMAIN response[t].body
                          THEN response[t].body["reason"] ELSE "Policy denied action"
            IN  /\ verdict[t].kind = "raised"
                /\ verdict[t].exc.cls = "PolicyViolationError"
                /\ verdict[t].exc.denial_reason = reason
                /\ ~Approved(verdict[t])
                /\ Blocked(t) /\ ~ExecutorInvoked(t)
                /\ Contains(result[t].error, reason)

C28_Witness ==
    \E t, u \in Tasks :
        /\ config.fail_open
        /\ Answered(t) /\ response[t].body = [reason |-> "no decision"] /\ Blocked(t)
        /\ Answered(u) /\ response[u].body = [approved |-> FALSE]
        /\ Contains(result[u].error, "Policy denied action")

(***************************************************************************)
(* C29: every AttestationResult of SwiftAPIAttestationProvider and         *)
(* NullAttestationProvider has: approved=false implies no artifact,        *)
(* non-empty jti implies approved=true; the fail-open result and the Null  *)
(* result carry neither jti nor artifact.                                  *)
(***************************************************************************)
OwnProvider == attestation_provider \in {"swiftapi", "null"}
NoCredential(v) == v.jti = "" /\ v.attestation = None

C29_ResultWellFormed ==
    \A t \in Tasks :
        (OwnProvider /\ verdict[t].kind = "returned") =>
            LET v == verdict[t].value
            IN  /\ ~v.approved => v.attestation = None
                /\ v.jti # "" => v.approved
                /\ attestation_provider = "null" => NoCredential(v)
                /\ (response[t].kind # "response") => NoCredential(v)

C29_Witness ==
    \E t, u \in Tasks :
        /\ config.fail_open
        /\ Answered(t) /\ Unreachable(response[t]) /\ Approved(verdict[t])
        /\ NoCredential(verdict[t].value)
        /\ Answered(u) /\ Approved(verdict[u]) /\ verdict[u].value.jti = "abc"
        /\ verdict[u].value.attestation # None

(***************************************************************************)
(* C21: whatever is passed as tools/controller, the tools handed to the    *)
(* underlying Agent is a SwiftAPITools, and it enforces the provider and   *)
(* the attest_all_actions setting given to the agent.                      *)
(***************************************************************************)
C21_AgentToolsEnforceAgentSettings ==
    run.at # "none" =>
        /\ agent.swiftapi_tools.class = "SwiftAPITools"
        /\ agent.attestation_provider # NoneStr =>
               attestation_provider = agent.attestation_provider
        /\ agent.attest_all_actions => attest_all_actions
        /\ \A t \in Tasks :
             (Done(t) /\ action[t] # NoAction /\ agent.attest_all_actions) =>
                 (ExecutorInvoked(t) => stats[t].provider_calls = 1)

(***************************************************************************)
(* C26: when SwiftAPIAgent.run() finishes, whether super().run() returned  *)
(* or raised, tools.close() has been called and the provider's transport   *)
(* session is no longer held; with a provider without close() the step     *)
(* does nothing and does not fail.                                         *)
(***************************************************************************)
C26_RunReleasesSession ==
    /\ run.at = "finished" =>
           /\ run.close_calls = 1
           /\ run.how \in {"returned", "raised"}
           /\ client = None
           /\ open_sessions = {}
           /\ pc[AgentTask] # "closing"
    /\ run.at = "closing" =>
           (attestation_provider = "swiftapi" /\ run.close_calls = 1
            /\ open_sessions = {})
    /\ run.at = "running" => run.close_calls = 0

C26_Witness ==
    /\ run.at = "finished" /\ run.how = "raised" /\ run.close_calls = 1
    /\ attestation_provider = "swiftapi" /\ requests_sent = 2
    /\ sessions_created = 1 /\ client = None

(***************************************************************************)
(* C30: the request_id of each /verify request is unique per call and      *)
(* time-ordered: two verify calls of a client carry different request_ids, *)
(* the later call's ordering after the earlier call's.                     *)
(***************************************************************************)
C30_RequestIdsUniqueAndOrdered ==
    \A i, j \in 1..Len(request_ids) :
        i < j => (request_ids[i] # request_ids[j]
                  /\ str_less(request_ids[i], request_ids[j]))

(***************************************************************************)
(* C31: for one agent proposing its actions one after the other, the       *)
(* /verify request of an action is not issued before the action proposed   *)
(* before it has reached its terminal state: Approved and handed to the    *)
(* executor, or Blocked.                                                   *)
(***************************************************************************)
Terminal(t) == Done(t) /\ (ExecutorInvoked(t) \/ Blocked(t))
NoActionBefore(t) == pc[t] = "idle" /\ action[t] = NoAction

C31_DecidedInProposalOrder ==
    [][requests_sent' > requests_sent =>
           (NoActionBefore(AgentTask) \/ Terminal(AgentTask))]_vars

(***************************************************************************)
(* C32: app_id, actor, environment and request_id of the context of a      *)
(* /verify request come from the client; a context given by the caller     *)
(* adds keys but never replaces the value of one of these fields.          *)
(***************************************************************************)
C32_IdentityFieldsFromClient ==
    \A i \in 1..Len(sent_contexts) :
        LET sent == sent_contexts[i].context
            given == sent_contexts[i].given
        IN  /\ IdentityFields \subseteq DOMAIN sent
            /\ sent["app_id"] = ClientIdentity.app_id
            /\ sent["actor"] = ClientIdentity.actor
            /\ sent["environment"] = "production"
            /\ sent["request_id"] = request_ids[i]
            /\ \A k \in DOMAIN given \ IdentityFields : sent[k] = given[k]

====
